---- MODULE Spec2Model ----
(***************************************************************************)
(* Model of the AI analysis core of Autopump: the provider registry, the   *)
(* concurrent fan-out of AIManager.analyze_token and the aggregation of    *)
(* AIManager.get_consensus_analysis (src/src/ai/manager.py), the adapters  *)
(* (src/src/ai/providers), the health check and its CLI command, the       *)
(* AI-enhanced trader and the broadcast of the web UI.                     *)
(*                                                                         *)
(* Floats are modelled as exact rationals [num, den]; the adapters in this *)
(* repository only produce multiples of 0.1.                               *)
(***************************************************************************)
EXTENDS Integers, Sequences, FiniteSets, TLC

VARIABLES
    config,     \* AIManager.config["providers"]
    providers,  \* AIManager.providers, the registered adapters in order
    pc,         \* position of the caller: "idle", "gather", "returned"
    entry,      \* the method the caller invoked: "analyze_token" or "get_consensus_analysis"
    tasks,      \* the asyncio tasks created by analyze_token, one per provider:
                \* state, what the adapter call did (outcome), what the task ended with
    completed,  \* indices of the tasks in the order in which they finished
    result,     \* the list returned by analyze_token
    decision,   \* the AIResponse returned by get_consensus_analysis
    raised,     \* the exception that reached the caller, "none" if none did
    call,       \* a direct call of one adapter: its kind, method and what the backend does
    reply,      \* what that adapter call returned or raised
    health_pc,      \* check_provider_health: "idle", "checking", "returned"
    health_i,       \* the number of providers its loop is done with
    health_status,  \* its dictionary health_status
    health_checks,  \* what each health_check call of this run did, in call order
    cli,            \* the --provider option of "ai health" and what the command printed
    trader,         \* AIEnhancedTrader: min_confidence, max_risk_score, require_consensus
    trade_pc,       \* analyze_and_trade: "idle", "executing", "returned", "raised"
    trade_analysis, \* the analysis analyze_and_trade decides on
    orders,         \* the calls of buyer.execute and seller.execute made by this call
    trade_result,   \* the TradeResult analyze_and_trade returned
    websockets,     \* TradingBotWebUI.websockets
    broadcast_pc,   \* broadcast_message: "idle", "sending", "returned"
    position,       \* the index the list iterator of the for loop is at
    disconnected,   \* the local list disconnected
    listed,         \* the websockets in the list when this broadcast began
    attempted,      \* the websockets send_str was called on in this broadcast, in order
    failed,         \* the websockets whose send_str raised in this broadcast
    departed        \* the websockets whose handler left the list during this broadcast

managerVars == <<config, providers, pc, entry, tasks, completed, result, decision, raised>>

adapterVars == <<call, reply>>

healthVars == <<health_pc, health_i, health_status, health_checks, cli>>

traderVars == <<trader, trade_pc, trade_analysis, orders, trade_result>>

webVars ==
    <<websockets, broadcast_pc, position, disconnected, listed, attempted, failed, departed>>

vars == <<managerVars, adapterVars, healthVars, traderVars, webVars>>

(***************************************************************************)
(* Values                                                                  *)
(***************************************************************************)

\* The backend kinds in the order in which _setup_providers looks at them.
Kinds == <<"ollama", "lmstudio", "localai", "gemini">>

KindSet == {Kinds[k] : k \in 1..Len(Kinds)}

\* AIProvider.name is the name of the adapter's class.
ClassName(kind) ==
    CASE kind = "ollama"   -> "OllamaProvider"
      [] kind = "lmstudio" -> "LMStudioProvider"
      [] kind = "localai"  -> "LocalAIProvider"
      [] kind = "gemini"   -> "GeminiProvider"

\* The model of the LocalAI adapter, which has a model identifier like the
\* other adapters.
LocalAIModel == "localai-model"

\* The model an adapter is configured with (config.get("model", default)).
ModelName(kind) ==
    CASE kind = "ollama"   -> "llama3.2"
      [] kind = "lmstudio" -> "local-model"
      [] kind = "localai"  -> LocalAIModel
      [] kind = "gemini"   -> "gemini-1.5-flash"

\* A float that is a multiple of 0.1.
Tenths(n) == [num |-> n, den |-> 10]

\* Field defaults of the AIResponse dataclass.
DefaultConfidence == Tenths(0)

DefaultRecommendation == "hold"

DefaultRiskScore == Tenths(5)

\* The metadata of a response built without one (__post_init__: {}).
EmptyMetadata == <<>>

\* AIResponse(...) with every field given.
AIResponse(success, analysis, confidence, recommendation, risk_score, reasoning, metadata) ==
    [success        |-> success,
     analysis       |-> analysis,
     confidence     |-> confidence,
     recommendation |-> recommendation,
     risk_score     |-> risk_score,
     reasoning      |-> reasoning,
     metadata       |-> metadata]

\* AIResponse(success=..., analysis=..., metadata=...): the other fields
\* keep the dataclass defaults, reasoning None becomes [].
DefaultedResponse(success, analysis, metadata) ==
    AIResponse(success, analysis, DefaultConfidence, DefaultRecommendation,
               DefaultRiskScore, <<>>, metadata)

\* The value of a variable that holds nothing yet.
Nothing == [type |-> "none"]

\* No health check, no trade and no broadcast is under way.
HealthIdle ==
    /\ health_pc = "idle"
    /\ health_i = 0
    /\ health_status = <<>>
    /\ health_checks = <<>>
    /\ cli = Nothing

TraderIdle ==
    /\ trader = Nothing
    /\ trade_pc = "idle"
    /\ trade_analysis = Nothing
    /\ orders = <<>>
    /\ trade_result = Nothing

WebIdle ==
    /\ websockets = <<>>
    /\ broadcast_pc = "idle"
    /\ position = 0
    /\ disconnected = <<>>
    /\ listed = {}
    /\ attempted = <<>>
    /\ failed = {}
    /\ departed = {}

(***************************************************************************)
(* Provider registry: AIManager.__init__ and _setup_providers              *)
(***************************************************************************)

\* The entries config["providers"] may hold for one backend kind: none, one
\* with enabled false, one with enabled true; only Gemini reads api_key.
ConfigEntries(kind) ==
    {[present |-> FALSE, enabled |-> FALSE, api_key |-> FALSE],
     [present |-> TRUE,  enabled |-> FALSE, api_key |-> FALSE],
     [present |-> TRUE,  enabled |-> TRUE,  api_key |-> FALSE]}
    \cup (IF kind = "gemini"
           THEN {[present |-> TRUE, enabled |-> TRUE, api_key |-> TRUE]}
           ELSE {})

Configs == {c \in [KindSet -> UNION {ConfigEntries(k) : k \in KindSet}] :
               \A k \in KindSet : c[k] \in ConfigEntries(k)}

\* LocalAIProvider(config): a backend that needs no credential, so its
\* construction does not fail.
LocalAIConstructs(cfgEntry) == TRUE

\* Constructors that accept a configuration without an API key.
ConstructsWithoutKey(kind, cfgEntry) == TRUE

\* The adapter constructors: GeminiProvider raises ValueError without an
\* API key, OllamaProvider and LMStudioProvider accept any configuration.
Constructs(kind, cfgEntry) ==
    CASE kind = "gemini"  -> cfgEntry.api_key
      [] kind = "localai" -> LocalAIConstructs(cfgEntry)
      [] OTHER            -> TRUE

\* An adapter object: AIProvider.__init__ sets name, the subclass the model.
Provider(kind) ==
    [kind |-> kind, name |-> ClassName(kind), model |-> ModelName(kind)]

\* One "Setup ..." block of _setup_providers: the adapter is appended iff
\* its key is present, enabled and the constructor does not raise.
Registers(cfg, kind) ==
    /\ cfg[kind].present
    /\ cfg[kind].enabled
    /\ Constructs(kind, cfg[kind])

\* The four blocks run in the opposite order.
SetupProvidersReversed(cfg) ==
    LET kept == SelectSeq(Kinds, LAMBDA k : Registers(cfg, k))
    IN  [i \in 1..Len(kept) |-> Provider(kept[Len(kept) + 1 - i])]

\* _setup_providers: the four blocks run in the fixed order of Kinds.
SetupProviders(cfg) ==
    LET kept == SelectSeq(Kinds, LAMBDA k : Registers(cfg, k))
    IN  [i \in 1..Len(kept) |-> Provider(kept[i])]

(***************************************************************************)
(* What one adapter call may do                                            *)
(***************************************************************************)

\* The exceptions an adapter call may raise (a timeout is one of them);
\* str(e) is modelled by the name.
Errors == {"TimeoutError"}

\* The structured fields a parsed reply may carry: recommendation,
\* confidence and risk in tenths, number of reasoning lines kept (at most 5).
ReplyShapes ==
    {<<"buy", 9, 2, 5>>, <<"buy", 8, 5, 2>>,
     <<"sell", 8, 8, 5>>, <<"hold", 3, 5, 0>>}

\* The reasoning lines of a reply of adapter kind, n of them.
ReasoningLines(kind, n) == [j \in 1..n |-> <<kind, j>>]

\* _parse_analysis_response: the success response of an adapter.
ParsedResponse(p, shape) ==
    AIResponse(TRUE, [text |-> "reply"], Tenths(shape[2]), shape[1],
               Tenths(shape[3]), ReasoningLines(p.kind, shape[4]),
               [provider |-> p.kind, model |-> p.model])

\* The failure response an adapter builds itself in its except branch.
LocalFailure(p, e) ==
    DefaultedResponse(FALSE, [template |-> "Error: {e}", error |-> e], EmptyMetadata)

\* provider.analyze_token: it returns a response or raises.
AdapterOutcomes(p) ==
    {[type |-> "return", value |-> ParsedResponse(p, s)] : s \in ReplyShapes}
    \cup {[type |-> "return", value |-> LocalFailure(p, "ClientError")]}
    \cup {[type |-> "raise", error |-> e] : e \in Errors}

(***************************************************************************)
(* AIManager.analyze_token: fan-out, wait, collect                         *)
(***************************************************************************)

\* What an asyncio task ends with: a returned value or an exception.
Returned(v) == [type |-> "result", value |-> v]

Failed(e) == [type |-> "exception", error |-> e]

\* _safe_analyze_token without its try/except: the exception ends the task.
SafeAnalyzeTokenUncaught(p, outcome) ==
    IF outcome.type = "raise" THEN Failed(outcome.error) ELSE Returned(outcome.value)

\* _safe_analyze_token building the failure the way the adapters do, without
\* the provider's name.
SafeAnalyzeTokenAnonymous(p, outcome) ==
    IF outcome.type = "raise"
    THEN Returned(DefaultedResponse(
             FALSE, [template |-> "Error: {e}", error |-> outcome.error], EmptyMetadata))
    ELSE Returned(outcome.value)

\* _safe_analyze_token: the adapter's response, or for any Exception raised
\* by the adapter a failure response that names the adapter.
SafeAnalyzeToken(p, outcome) ==
    IF outcome.type = "raise"
    THEN Returned(DefaultedResponse(
             FALSE,
             [template |-> "Provider {name} failed: {e}",
              name |-> p.name, error |-> outcome.error],
             [provider |-> p.name, error |-> outcome.error]))
    ELSE Returned(outcome.value)

\* The tasks list built by the loop over self.providers: one task per
\* provider, created and not yet run; calls counts how often the task has
\* invoked provider.analyze_token.
CreateTasks(ps) ==
    [i \in 1..Len(ps) |->
        [state |-> "pending", calls |-> 0, outcome |-> Nothing, result |-> Nothing]]

\* A wait that resumes its awaiter as soon as one task is done.
GatherFirstDone(ts) == \E i \in 1..Len(ts) : ts[i].state = "done"

\* A wait that resumes its awaiter only when every task is done and none of
\* the adapter calls has failed.
GatherDoneWithoutFailure(ts) ==
    \A i \in 1..Len(ts) :
        ts[i].state = "done" /\ ts[i].result.type = "result" /\ ts[i].result.value.success

\* asyncio.gather(*tasks, return_exceptions=True) resumes its awaiter when
\* every task is done.
GatherDone(ts) == \A i \in 1..Len(ts) : ts[i].state = "done"

\* Results handed over in the order in which the tasks finished.
GatherInCompletionOrder(ts, order) == [j \in 1..Len(order) |-> ts[order[j]].result]

\* The list gather resolves to: one entry per task, in the order of the
\* tasks passed, whatever the order in which they finished.
Gather(ts, order) == [i \in 1..Len(ts) |-> ts[i].result]

\* A filter that also leaves out the responses with success false.
ValidResponsesSuccessfulOnly(responses) ==
    LET kept == SelectSeq(responses, LAMBDA r : r.type = "result" /\ r.value.success)
    IN  [i \in 1..Len(kept) |-> kept[i].value]

\* The loop over the gathered responses: an exception is logged and left
\* out, an AIResponse is kept, anything else is left out.
ValidResponses(responses) ==
    LET kept == SelectSeq(responses, LAMBDA r : r.type = "result")
    IN  [i \in 1..Len(kept) |-> kept[i].value]

(***************************************************************************)
(* AIManager.get_consensus_analysis                                        *)
(***************************************************************************)

\* The analysis text of the decision returned when there is no response.
NoProvidersMessage == [text |-> "No AI providers available for analysis"]

\* get_consensus_analysis without its empty check.
NoResponsesUnchecked(responses) == FALSE

\* "if not responses".
NoResponses(responses) == Len(responses) = 0

\* sum(1 for r in responses if r.recommendation == rec).
Votes(responses, rec) ==
    Cardinality({i \in 1..Len(responses) : responses[i].recommendation = rec})

\* The comparison with >= against the hold votes: a tie with hold is a win.
ConsensusRecommendationTieWins(buy_votes, sell_votes, hold_votes) ==
    IF buy_votes > sell_votes /\ buy_votes >= hold_votes THEN "buy"
    ELSE IF sell_votes > buy_votes /\ sell_votes >= hold_votes THEN "sell"
    ELSE "hold"

\* A winner needs more than half of all votes.
ConsensusRecommendationMajority(buy_votes, sell_votes, hold_votes) ==
    IF 2 * buy_votes > buy_votes + sell_votes + hold_votes THEN "buy"
    ELSE IF 2 * sell_votes > buy_votes + sell_votes + hold_votes THEN "sell"
    ELSE "hold"

\* The if / elif / else that determines the consensus recommendation.
ConsensusRecommendation(buy_votes, sell_votes, hold_votes) ==
    IF buy_votes > sell_votes /\ buy_votes > hold_votes THEN "buy"
    ELSE IF sell_votes > buy_votes /\ sell_votes > hold_votes THEN "sell"
    ELSE "hold"

\* The product of the denominators of a list of rationals.
RECURSIVE DenProduct(_)
DenProduct(xs) == IF Len(xs) = 0 THEN 1 ELSE Head(xs).den * DenProduct(Tail(xs))

\* The numerator of their sum over that common denominator.
RECURSIVE NumSum(_)
NumSum(xs) ==
    IF Len(xs) = 0 THEN 0
    ELSE Head(xs).num * DenProduct(Tail(xs)) + NumSum(Tail(xs)) * Head(xs).den

\* Python's sum() of floats, as exact rationals.
SumOf(xs) == [num |-> NumSum(xs), den |-> DenProduct(xs)]

\* Python's x / n: ZeroDivisionError when n is 0.
ZeroDivisionError == [type |-> "exception", error |-> "ZeroDivisionError"]

TrueDiv(x, n) ==
    IF n = 0 THEN ZeroDivisionError ELSE [num |-> x.num, den |-> x.den * n]

\* The mean over the successful responses only.
AvgConfidenceOfSuccessful(responses) ==
    LET ok == SelectSeq(responses, LAMBDA r : r.success)
    IN  IF Len(ok) = 0 THEN DefaultConfidence
        ELSE TrueDiv(SumOf([i \in 1..Len(ok) |-> ok[i].confidence]), Len(ok))

\* sum(r.confidence for r in responses) / len(responses).
AvgConfidence(responses) ==
    TrueDiv(SumOf([i \in 1..Len(responses) |-> responses[i].confidence]),
            Len(responses))

\* sum(r.risk_score for r in responses) / len(responses).
AvgRiskScore(responses) ==
    TrueDiv(SumOf([i \in 1..Len(responses) |-> responses[i].risk_score]),
            Len(responses))

\* all_reasoning: every response's reasoning, extended in response order.
RECURSIVE AllReasoning(_)
AllReasoning(responses) ==
    IF Len(responses) = 0 THEN <<>>
    ELSE Head(responses).reasoning \o AllReasoning(Tail(responses))

\* xs[:n].
Prefix(xs, n) == SubSeq(xs, 1, IF Len(xs) < n THEN Len(xs) ELSE n)

\* The cut of the merged reasoning, all_reasoning[:10].
ReasoningCap == 10

\* all_reasoning[-10:], the last entries instead of the first.
TopReasoningLast(all_reasoning) ==
    SubSeq(all_reasoning,
           IF Len(all_reasoning) > ReasoningCap THEN Len(all_reasoning) - ReasoningCap + 1 ELSE 1,
           Len(all_reasoning))

TopReasoning(all_reasoning) == Prefix(all_reasoning, ReasoningCap)

\* f"Provider {i+1}", the label of a response without a provider entry.
ProviderLabel(i) == <<"Provider 1", "Provider 2", "Provider 3", "Provider 4">>[i]

\* response.metadata.get("provider", f"Provider {i+1}").
ProviderNameOf(response, i) ==
    IF "provider" \in DOMAIN response.metadata
    THEN response.metadata.provider
    ELSE ProviderLabel(i)

\* consensus_text: the report, kept as the values interpolated into it
\* (the two averages are printed with two decimals, which is not modelled).
ConsensusText(responses, rec, buy_votes, sell_votes, hold_votes) ==
    [providers      |-> Len(responses),
     recommendation |-> [upper |-> rec],
     buy_votes      |-> buy_votes,
     sell_votes     |-> sell_votes,
     hold_votes     |-> hold_votes,
     sections       |-> [i \in 1..Len(responses) |->
                            [provider       |-> [upper |-> ProviderNameOf(responses[i], i)],
                             recommendation |-> responses[i].recommendation,
                             key_points     |-> Prefix(responses[i].reasoning, 2)]]]

\* Metadata that keeps only the successful responses for the audit.
ConsensusMetadataSuccessfulOnly(responses) ==
    LET ok == SelectSeq(responses, LAMBDA r : r.success)
    IN  [provider             |-> "consensus",
         provider_count       |-> Len(ok),
         individual_responses |-> ok]

\* The metadata of the decision: the number of responses and the list
\* of responses itself.
ConsensusMetadata(responses) ==
    [provider             |-> "consensus",
     provider_count       |-> Len(responses),
     individual_responses |-> responses]

\* The body of get_consensus_analysis after analyze_token has returned:
\* what the method returns or raises for the given responses.
ConsensusOf(responses) ==
    IF NoResponses(responses)
    THEN Returned(DefaultedResponse(FALSE, NoProvidersMessage, EmptyMetadata))
    ELSE LET buy_votes      == Votes(responses, "buy")
             sell_votes     == Votes(responses, "sell")
             hold_votes     == Votes(responses, "hold")
             rec            == ConsensusRecommendation(buy_votes, sell_votes, hold_votes)
             avg_confidence == AvgConfidence(responses)
             avg_risk_score == AvgRiskScore(responses)
         IN  IF avg_confidence = ZeroDivisionError \/ avg_risk_score = ZeroDivisionError
             THEN ZeroDivisionError
             ELSE Returned(AIResponse(
                      TRUE,
                      ConsensusText(responses, rec, buy_votes, sell_votes, hold_votes),
                      avg_confidence, rec, avg_risk_score,
                      TopReasoning(AllReasoning(responses)),
                      ConsensusMetadata(responses)))

(***************************************************************************)
(* The state machine                                                       *)
(***************************************************************************)

\* AIManager(config): the registry is built once, nothing is running.
Init ==
    /\ config \in Configs
    /\ providers = SetupProviders(config)
    /\ pc = "idle"
    /\ entry = "none"
    /\ tasks = <<>>
    /\ completed = <<>>
    /\ result = <<>>
    /\ decision = Nothing
    /\ raised = "none"
    /\ call = Nothing
    /\ reply = Nothing
    /\ HealthIdle
    /\ TraderIdle
    /\ WebIdle

\* analyze_token hands valid_responses back; when it was called from
\* get_consensus_analysis that method runs to its end without suspending.
Deliver(valid) ==
    /\ result' = valid
    /\ pc' = "returned"
    /\ IF entry' = "get_consensus_analysis"
       THEN \E c \in {ConsensusOf(valid)} :
                /\ decision' = (IF c.type = "result" THEN c.value ELSE Nothing)
                /\ raised' = (IF c.type = "exception" THEN c.error ELSE "none")
       ELSE /\ decision' = Nothing
            /\ raised' = "none"

\* The start of analyze_token up to its await: with no provider it returns
\* [] at once, otherwise it creates one task per provider and awaits gather.
Enter(method) ==
    /\ pc = "idle"
    /\ entry' = method
    /\ completed' = <<>>
    /\ IF Len(providers) = 0
       THEN /\ tasks' = <<>>
            /\ Deliver(<<>>)
       ELSE /\ tasks' = CreateTasks(providers)
            /\ pc' = "gather"
            /\ UNCHANGED <<result, decision, raised>>
    /\ UNCHANGED <<config, providers>>
    /\ UNCHANGED <<adapterVars, healthVars, traderVars, webVars>>

\* A caller awaits manager.analyze_token(...).
AnalyzeToken == Enter("analyze_token")

\* A caller awaits manager.get_consensus_analysis(...), which awaits
\* self.analyze_token(...) first.
GetConsensusAnalysis == Enter("get_consensus_analysis")

\* The event loop runs task i up to the await inside the adapter call.
TaskStart(i) ==
    /\ pc = "gather"
    /\ tasks[i].state = "pending"
    /\ tasks' = [tasks EXCEPT ![i].state = "running", ![i].calls = @ + 1]
    /\ UNCHANGED <<config, providers, pc, entry, completed, result, decision, raised>>
    /\ UNCHANGED <<adapterVars, healthVars, traderVars, webVars>>

\* A task that calls the adapter again when the call raised or failed.
TaskFinishRetrying(i) ==
    /\ pc = "gather"
    /\ tasks[i].state = "running"
    /\ \E outcome \in AdapterOutcomes(providers[i]) :
           tasks' = [tasks EXCEPT ![i] =
                        IF outcome.type = "raise" \/ ~outcome.value.success
                        THEN [tasks[i] EXCEPT !.state = "pending"]
                        ELSE [state   |-> "done",
                              calls   |-> tasks[i].calls,
                              outcome |-> outcome,
                              result  |-> SafeAnalyzeToken(providers[i], outcome)]]
    /\ completed' = (IF tasks'[i].state = "done" THEN Append(completed, i) ELSE completed)
    /\ UNCHANGED <<config, providers, pc, entry, result, decision, raised>>
    /\ UNCHANGED <<adapterVars, healthVars, traderVars, webVars>>

\* The adapter call of task i ends (reply, error or timeout) and
\* _safe_analyze_token finishes the task.
TaskFinish(i) ==
    /\ pc = "gather"
    /\ tasks[i].state = "running"
    /\ \E outcome \in AdapterOutcomes(providers[i]) :
           tasks' = [tasks EXCEPT ![i] =
                        [state   |-> "done",
                         calls   |-> tasks[i].calls,
                         outcome |-> outcome,
                         result  |-> SafeAnalyzeToken(providers[i], outcome)]]
    /\ completed' = Append(completed, i)
    /\ UNCHANGED <<config, providers, pc, entry, result, decision, raised>>
    /\ UNCHANGED <<adapterVars, healthVars, traderVars, webVars>>

\* gather resolves; analyze_token filters the responses and returns.
GatherReturns ==
    /\ pc = "gather"
    /\ GatherDone(tasks)
    /\ UNCHANGED entry
    /\ \E valid \in {ValidResponses(Gather(tasks, completed))} : Deliver(valid)
    /\ UNCHANGED <<config, providers, tasks, completed>>
    /\ UNCHANGED <<adapterVars, healthVars, traderVars, webVars>>

\* The caller has its answer; the manager is ready for the next call.
NextCall ==
    /\ pc = "returned"
    /\ pc' = "idle"
    /\ entry' = "none"
    /\ tasks' = <<>>
    /\ completed' = <<>>
    /\ result' = <<>>
    /\ decision' = Nothing
    /\ raised' = "none"
    /\ UNCHANGED <<config, providers>>
    /\ UNCHANGED <<adapterVars, healthVars, traderVars, webVars>>

Next ==
    \/ AnalyzeToken
    \/ GetConsensusAnalysis
    \/ \E i \in 1..Len(tasks) : TaskStart(i)
    \/ \E i \in 1..Len(tasks) : TaskFinish(i)
    \/ GatherReturns
    \/ NextCall

Spec == Init /\ [][Next]_vars

\* The event loop runs every task that is ready, every adapter call ends
\* (with a reply, an error or its own timeout), and an awaiter whose gather
\* has resolved is resumed.
Fairness ==
    /\ WF_vars(\E i \in 1..Len(tasks) : TaskStart(i))
    /\ WF_vars(\E i \in 1..Len(tasks) : TaskFinish(i))
    /\ WF_vars(GatherReturns)

FairSpec == Init /\ [][Next]_vars /\ Fairness

(***************************************************************************)
(* Strings, as Python handles them                                         *)
(*                                                                         *)
(* Strings are ASCII here: "@" stands for the bullet character U+2022 and  *)
(* "#%&" for the three characters U+00E2 U+20AC U+00A2 that lmstudio.py    *)
(* has in the bullet's place.                                              *)
(***************************************************************************)

\* sub in s.
Contains(s, sub) ==
    \E i \in 1..(Len(s) - Len(sub) + 1) : SubSeq(s, i, i + Len(sub) - 1) = sub

\* s.startswith(prefix).
StartsWith(s, prefix) ==
    Len(s) >= Len(prefix) /\ SubSeq(s, 1, Len(prefix)) = prefix

\* any(phrase in s for phrase in phrases).
ContainsAny(s, phrases) == \E phrase \in phrases : Contains(s, phrase)

UpperCase == "ABCDEFGHIJKLMNOPQRSTUVWXYZ"

LowerCase == "abcdefghijklmnopqrstuvwxyz"

\* The lower-case letter of every upper-case letter.
LowerOf ==
    [c \in {SubSeq(UpperCase, i, i) : i \in 1..Len(UpperCase)} |->
        LET i == CHOOSE i \in 1..Len(UpperCase) : SubSeq(UpperCase, i, i) = c
        IN  SubSeq(LowerCase, i, i)]

\* c.lower() for one character.
LowerChar(c) == IF c \in DOMAIN LowerOf THEN LowerOf[c] ELSE c

\* s.lower().
RECURSIVE Lower(_)
Lower(s) ==
    IF Len(s) = 0 THEN "" ELSE LowerChar(SubSeq(s, 1, 1)) \o Lower(SubSeq(s, 2, Len(s)))

\* The characters str.strip() removes.
Whitespace == {" ", "\t", "\n", "\r"}

\* s.strip().
RECURSIVE Strip(_)
Strip(s) ==
    IF Len(s) = 0 THEN ""
    ELSE IF SubSeq(s, 1, 1) \in Whitespace THEN Strip(SubSeq(s, 2, Len(s)))
    ELSE IF SubSeq(s, Len(s), Len(s)) \in Whitespace THEN Strip(SubSeq(s, 1, Len(s) - 1))
    ELSE s

\* s.split('\n').
RECURSIVE SplitLines(_)
SplitLines(s) ==
    IF ~Contains(s, "\n") THEN <<s>>
    ELSE LET i == CHOOSE i \in 1..Len(s) :
                      /\ SubSeq(s, i, i) = "\n"
                      /\ \A j \in 1..(i - 1) : SubSeq(s, j, j) # "\n"
         IN  <<SubSeq(s, 1, i - 1)>> \o SplitLines(SubSeq(s, i + 1, Len(s)))

\* "\n".join(lines).
RECURSIVE JoinLines(_)
JoinLines(lines) ==
    IF Len(lines) = 0 THEN ""
    ELSE IF Len(lines) = 1 THEN lines[1]
    ELSE lines[1] \o "\n" \o JoinLines(Tail(lines))

(***************************************************************************)
(* The adapters' interpreters: _parse_analysis_response                    *)
(***************************************************************************)

\* The value the adapter reads the reply text from: a string, JSON null,
\* or nothing when the key is not in the payload.
Str(t) == [kind |-> "str", str |-> t]

Null == [kind |-> "null"]

Missing == [kind |-> "missing"]

\* The adapters with an interpreter under src/.
AdapterKinds == {"ollama", "lmstudio", "gemini"}

\* Ollama: the recommendation rules.
OllamaRecommendation(text_lower) ==
    IF Contains(text_lower, "buy") /\ Contains(text_lower, "recommend") THEN "buy"
    ELSE IF Contains(text_lower, "sell") /\ Contains(text_lower, "recommend") THEN "sell"
    ELSE "hold"

\* Ollama: the confidence rules, in tenths.
OllamaConfidence(text_lower) ==
    IF Contains(text_lower, "high confidence") THEN 8
    ELSE IF Contains(text_lower, "low confidence") THEN 3
    ELSE IF Contains(text_lower, "very confident") THEN 9
    ELSE 5

\* Ollama: the risk rules, in tenths.
OllamaRiskScore(text_lower) ==
    IF Contains(text_lower, "high risk") THEN 8
    ELSE IF Contains(text_lower, "low risk") THEN 2
    ELSE IF Contains(text_lower, "very risky") \/ Contains(text_lower, "extremely risky") THEN 9
    ELSE 5

\* Ollama: whether a stripped line is a reasoning point.
OllamaCaptures(line) ==
    \/ \E marker \in {"-", "@", "*"} : StartsWith(line, marker)
    \/ ContainsAny(Lower(line), {"because", "due to", "reason"})

\* LM Studio and Gemini: the recommendation rules.
PhraseRecommendation(text_lower) ==
    IF Contains(text_lower, "recommend buy") \/ Contains(text_lower, "should buy") THEN "buy"
    ELSE IF Contains(text_lower, "recommend sell") \/ Contains(text_lower, "should sell") THEN "sell"
    ELSE IF Contains(text_lower, "avoid") \/ Contains(text_lower, "skip") THEN "sell"
    ELSE "hold"

\* LM Studio and Gemini: the confidence rules, in tenths.
PhraseConfidence(text_lower) ==
    IF Contains(text_lower, "high confidence") \/ Contains(text_lower, "very confident") THEN 8
    ELSE IF Contains(text_lower, "low confidence") \/ Contains(text_lower, "uncertain") THEN 3
    ELSE IF Contains(text_lower, "extremely confident") THEN 9
    ELSE 5

\* LM Studio: the risk rules, in tenths.
LMStudioRiskScore(text_lower) ==
    IF Contains(text_lower, "high risk") \/ Contains(text_lower, "risky") THEN 8
    ELSE IF Contains(text_lower, "low risk") \/ Contains(text_lower, "safe") THEN 2
    ELSE IF Contains(text_lower, "extremely risky") \/ Contains(text_lower, "very dangerous") THEN 9
    ELSE 5

\* Gemini: the risk rules, in tenths.
GeminiRiskScore(text_lower) ==
    IF Contains(text_lower, "high risk") \/ Contains(text_lower, "risky") THEN 8
    ELSE IF Contains(text_lower, "low risk") \/ Contains(text_lower, "safe") THEN 2
    ELSE IF Contains(text_lower, "extremely risky") THEN 9
    ELSE 5

\* The markers "1." to "5.".
NumberMarkers == {"1.", "2.", "3.", "4.", "5."}

\* LM Studio: whether a stripped line is a reasoning point.
LMStudioCaptures(line) ==
    \E marker \in {"-", "#%&", "*"} \cup NumberMarkers : StartsWith(line, marker)

\* Gemini: whether a stripped line is a reasoning point.
GeminiCaptures(line) ==
    \E marker \in {"-", "@", "*"} \cup NumberMarkers : StartsWith(line, marker)

\* The four extractions of one adapter kind.
Recommendation(kind, text_lower) ==
    IF kind = "ollama" THEN OllamaRecommendation(text_lower)
    ELSE PhraseRecommendation(text_lower)

Confidence(kind, text_lower) ==
    IF kind = "ollama" THEN OllamaConfidence(text_lower) ELSE PhraseConfidence(text_lower)

RiskScore(kind, text_lower) ==
    CASE kind = "ollama"   -> OllamaRiskScore(text_lower)
      [] kind = "lmstudio" -> LMStudioRiskScore(text_lower)
      [] kind = "gemini"   -> GeminiRiskScore(text_lower)

Captures(kind, line) ==
    CASE kind = "ollama"   -> OllamaCaptures(line)
      [] kind = "lmstudio" -> LMStudioCaptures(line)
      [] kind = "gemini"   -> GeminiCaptures(line)

\* The loop over text.split('\n'): the stripped lines that are captured.
Reasoning(kind, text) ==
    LET lines    == SplitLines(text)
        stripped == [i \in 1..Len(lines) |-> Strip(lines[i])]
    IN  SelectSeq(stripped, LAMBDA line : Captures(kind, line))

\* The cap on an adapter's reasoning, reasoning[:5].
AdapterReasoningCap == 5

\* The try body without the cut reasoning[:5].
ExtractUncapped(p, text) ==
    LET text_lower == Lower(text)
    IN  AIResponse(TRUE, Str(text),
                   Tenths(Confidence(p.kind, text_lower)),
                   Recommendation(p.kind, text_lower),
                   Tenths(RiskScore(p.kind, text_lower)),
                   Reasoning(p.kind, text),
                   [provider |-> p.kind, model |-> p.model])

\* The try body of _parse_analysis_response for a string.
Extract(p, text) ==
    LET text_lower == Lower(text)
    IN  AIResponse(TRUE, Str(text),
                   Tenths(Confidence(p.kind, text_lower)),
                   Recommendation(p.kind, text_lower),
                   Tenths(RiskScore(p.kind, text_lower)),
                   Prefix(Reasoning(p.kind, text), AdapterReasoningCap),
                   [provider |-> p.kind, model |-> p.model])

\* text.lower() raises AttributeError when the text is not a string.
ExtractionRaises(value) == value.kind # "str"

\* _parse_analysis_response without its try/except.
ParseAnalysisResponseUncaught(p, value) ==
    IF ExtractionRaises(value) THEN Failed("AttributeError")
    ELSE Returned(Extract(p, value.str))

\* _parse_analysis_response: the structured response, or when the
\* extraction raises a success response with the raw value and a
\* parse_error note.
ParseAnalysisResponse(p, value) ==
    IF ExtractionRaises(value)
    THEN Returned(DefaultedResponse(
             TRUE, value,
             [provider |-> p.kind, model |-> p.model, parse_error |-> "AttributeError"]))
    ELSE Returned(Extract(p, value.str))

(***************************************************************************)
(* The adapters' calls: analyze_token and analyze_market_conditions        *)
(***************************************************************************)

\* What the backend does with one request: the connection fails or times
\* out, or it answers with a status and a body that is JSON or not; content
\* is the value found where the adapter looks for the reply text.
Backend(transport, status, json, content) ==
    [transport |-> transport, status |-> status, json |-> json, content |-> content]

\* AIResponse(success=False, analysis=f"API Error: {error_text}").
ApiError(p) ==
    DefaultedResponse(FALSE, [template |-> "API Error: {error_text}"], EmptyMetadata)

\* AIResponse(success=False, analysis="No response from Gemini").
NoGeminiResponse(p) ==
    DefaultedResponse(FALSE, [text |-> "No response from Gemini"], EmptyMetadata)

\* return self._parse_analysis_response(analysis_text) inside the adapter's
\* try: an exception out of the parser ends in the adapter's except branch.
ParseIn(p, value) ==
    LET parsed == ParseAnalysisResponse(p, value)
    IN  IF parsed.type = "exception" THEN LocalFailure(p, parsed.error) ELSE parsed.value

\* The part of both methods up to the status check: what the method
\* returns when the request or response.json() raises, Nothing otherwise.
RequestFailure(p, b) ==
    IF b.transport = "error" THEN LocalFailure(p, "ClientError")
    ELSE IF ~b.json THEN LocalFailure(p, "ContentTypeError")
    ELSE Nothing

\* The value of the expression that reads the reply text out of the JSON:
\* result.get("response", "") for Ollama, a chain of subscripts, which
\* raises KeyError, for LM Studio and Gemini.
ReadsText(p, b) ==
    IF b.content = Missing
    THEN IF p.kind = "ollama" THEN Returned(Str("")) ELSE Failed("KeyError")
    ELSE Returned(b.content)

\* The tail of both methods: read the text and parse it.
ReadAndParse(p, b) ==
    LET read == ReadsText(p, b)
    IN  IF read.type = "exception" THEN LocalFailure(p, read.error)
        ELSE ParseIn(p, read.value)

\* analyze_token of the three adapters: a status other than 200 is an API
\* error; Gemini answers a payload without candidates itself.
AdapterAnalyzeToken(p, b) ==
    IF b.transport = "error" THEN LocalFailure(p, "ClientError")
    ELSE IF b.status # 200 THEN ApiError(p)
    ELSE IF RequestFailure(p, b) # Nothing THEN RequestFailure(p, b)
    ELSE IF p.kind = "gemini" /\ b.content = Missing THEN NoGeminiResponse(p)
    ELSE ReadAndParse(p, b)

\* analyze_market_conditions of the three adapters: the status is not
\* looked at.
AdapterAnalyzeMarketConditions(p, b) ==
    IF RequestFailure(p, b) # Nothing THEN RequestFailure(p, b)
    ELSE ReadAndParse(p, b)

(***************************************************************************)
(* Replies and backends the adapters are run on                            *)
(***************************************************************************)

\* The most lines of a reply put together from ReplyLines.
MaxLines == 2

\* The number of lines of the replies made of points and plain lines.
LongLines == 6

\* Lines a backend may write.
ReplyLines ==
    {"We recommend BUY now",
     "Do not buy, I recommend waiting",
     "You should sell",
     "Avoid this token",
     "- I recommend caution, skip it",
     "extremely confident",
     "* very confident",
     "uncertain because of low volume",
     "Extremely risky",
     "@ low risk due to locked liquidity",
     "  3. looks safe  ",
     "6. high risk"}

\* The replies of one to MaxLines lines.
ShortReplies ==
    {JoinLines(ls) : ls \in UNION {[1..n -> ReplyLines] : n \in 1..MaxLines}}

\* Line i of a long reply: a point or a plain line.
LongLine(i, point) ==
    (IF point THEN "- point " ELSE "note ") \o SubSeq("123456789", i, i)

\* The replies of LongLines lines, each a point or a plain line.
LongReplies ==
    {JoinLines([i \in 1..LongLines |-> LongLine(i, pts[i])]) :
        pts \in [1..LongLines -> BOOLEAN]}

Replies == {""} \cup ShortReplies \cup LongReplies

\* What a backend may do.
Backends ==
    {Backend("error", 0, FALSE, Missing)}
    \cup {Backend("ok", s, FALSE, Missing) : s \in {200, 500}}
    \cup {Backend("ok", s, TRUE, Missing) : s \in {200, 500}}
    \cup {Backend("ok", 200, TRUE, Null)}
    \cup {Backend("ok", 200, TRUE, Str(t)) : t \in Replies}

(***************************************************************************)
(* The adapters called directly                                            *)
(***************************************************************************)

\* A manager with every backend kind registered, nothing running.
AdapterInit ==
    /\ config = [k \in KindSet |-> [present |-> TRUE, enabled |-> TRUE, api_key |-> TRUE]]
    /\ providers = SetupProviders(config)
    /\ pc = "idle"
    /\ entry = "none"
    /\ tasks = <<>>
    /\ completed = <<>>
    /\ result = <<>>
    /\ decision = Nothing
    /\ raised = "none"
    /\ call = Nothing
    /\ reply = Nothing
    /\ HealthIdle
    /\ TraderIdle
    /\ WebIdle

\* A caller awaits provider.analyze_token(...) and the backend does b.
CallAnalyzeToken ==
    /\ call = Nothing
    /\ \E i \in 1..Len(providers), b \in Backends :
           /\ providers[i].kind \in AdapterKinds
           /\ call' = [provider |-> providers[i], method |-> "analyze_token", backend |-> b]
           /\ reply' = Returned(AdapterAnalyzeToken(providers[i], b))
    /\ UNCHANGED <<managerVars, healthVars, traderVars, webVars>>

\* A caller awaits provider.analyze_market_conditions(...) and the backend
\* does b.
CallAnalyzeMarketConditions ==
    /\ call = Nothing
    /\ \E i \in 1..Len(providers), b \in Backends :
           /\ providers[i].kind \in AdapterKinds
           /\ call' = [provider |-> providers[i], method |-> "analyze_market_conditions",
                       backend |-> b]
           /\ reply' = Returned(AdapterAnalyzeMarketConditions(providers[i], b))
    /\ UNCHANGED <<managerVars, healthVars, traderVars, webVars>>

\* get_consensus_analysis on the manager, the tasks run one after the
\* other: every backend does b, and the call of the LocalAI adapter raises.
CallConsensusOnBackend ==
    /\ call = Nothing
    /\ \E b \in Backends, e \in Errors :
           LET outcome(i) ==
                   IF providers[i].kind \in AdapterKinds
                   THEN [type |-> "return", value |-> AdapterAnalyzeToken(providers[i], b)]
                   ELSE [type |-> "raise", error |-> e]
               responses ==
                   [i \in 1..Len(providers) |-> SafeAnalyzeToken(providers[i], outcome(i))]
           IN  \E valid \in {ValidResponses(responses)} :
                   \E c \in {ConsensusOf(valid)} :
                       /\ call' = [provider |-> Nothing, method |-> "get_consensus_analysis",
                                   backend |-> b]
                       /\ reply' = c
                       /\ result' = valid
                       /\ decision' = (IF c.type = "result" THEN c.value ELSE Nothing)
    /\ UNCHANGED <<config, providers, pc, entry, tasks, completed, raised>>
    /\ UNCHANGED <<healthVars, traderVars, webVars>>

\* The caller has the adapter's answer.
CallDone ==
    /\ call # Nothing
    /\ call' = Nothing
    /\ reply' = Nothing
    /\ result' = <<>>
    /\ decision' = Nothing
    /\ UNCHANGED <<config, providers, pc, entry, tasks, completed, raised>>
    /\ UNCHANGED <<healthVars, traderVars, webVars>>

AdapterNext ==
    \/ CallAnalyzeToken
    \/ CallAnalyzeMarketConditions
    \/ CallConsensusOnBackend
    \/ CallDone

AdapterSpec == AdapterInit /\ [][AdapterNext]_vars

(***************************************************************************)
(* AIManager.check_provider_health and the command "ai health"             *)
(***************************************************************************)

\* get_provider_names: [provider.name for provider in self.providers].
GetProviderNames(ps) == [i \in 1..Len(ps) |-> ps[i].name]

\* get_provider_count: len(self.providers).
GetProviderCount(ps) == Len(ps)

\* provider.health_check(): the adapters under src/ return whether the
\* status is 200 and False for any exception; the abstract method lets any
\* other adapter raise as well.
HealthCheckOutcomes(p) ==
    {[type |-> "return", value |-> b] : b \in BOOLEAN}
    \cup (IF p.kind \in AdapterKinds
          THEN {}
          ELSE {[type |-> "raise", error |-> e] : e \in Errors})

\* The key under which the loop files an adapter's status.
HealthKey(p) == p.name

\* The loop body without its try/except.
HealthOfUncaught(p, outcome) ==
    IF outcome.type = "raise" THEN Failed(outcome.error) ELSE Returned(outcome.value)

\* The loop body: the value health_check returned, False when it raised.
HealthOf(p, outcome) ==
    IF outcome.type = "raise" THEN Returned(FALSE) ELSE Returned(outcome.value)

\* d[key] = value on a dictionary kept as a function.
SetItem(d, key, value) ==
    [k \in DOMAIN d \cup {key} |-> IF k = key THEN value ELSE d[k]]

\* The values of --provider.
CliProviders == KindSet \cup {"all"}

\* "ai health --provider option": the command builds a manager and awaits
\* check_provider_health, which starts with an empty dictionary.
AiHealth ==
    /\ health_pc = "idle"
    /\ \E option \in CliProviders : cli' = [provider |-> option, output |-> Nothing]
    /\ health_pc' = "checking"
    /\ health_i' = 0
    /\ health_status' = <<>>
    /\ health_checks' = <<>>
    /\ UNCHANGED <<managerVars, adapterVars, traderVars, webVars>>

\* One pass of the loop: the next provider's health_check is awaited and
\* its status filed; an exception that leaves the loop body ends the method.
HealthCheckStep ==
    /\ health_pc = "checking"
    /\ health_i < Len(providers)
    /\ \E outcome \in HealthCheckOutcomes(providers[health_i + 1]) :
           LET provider == providers[health_i + 1]
               is_healthy == HealthOf(provider, outcome)
           IN  /\ health_checks' = Append(health_checks, outcome)
               /\ health_i' = health_i + 1
               /\ IF is_healthy.type = "exception"
                  THEN /\ health_pc' = "raised"
                       /\ UNCHANGED health_status
                  ELSE /\ health_pc' = "checking"
                       /\ health_status' =
                              SetItem(health_status, HealthKey(provider), is_healthy.value)
    /\ UNCHANGED cli
    /\ UNCHANGED <<managerVars, adapterVars, traderVars, webVars>>

\* The loop is over: return health_status.
HealthReturn ==
    /\ health_pc = "checking"
    /\ health_i = Len(providers)
    /\ health_pc' = "returned"
    /\ UNCHANGED <<health_i, health_status, health_checks, cli>>
    /\ UNCHANGED <<managerVars, adapterVars, traderVars, webVars>>

\* "✅ Healthy" if status else "❌ Unhealthy".
StatusText(status) == IF status THEN "Healthy" ELSE "Unhealthy"

\* What the command prints for the mapping it got: a line per entry for
\* "all" (a dictionary lists its keys in insertion order), else the line of
\* the entry whose key is the option, or that the provider was not found.
HealthReport(option, names, status) ==
    IF option = "all"
    THEN [type  |-> "all",
          lines |-> [i \in 1..Len(names) |-> <<names[i], StatusText(status[names[i]])>>]]
    ELSE IF option \in DOMAIN status
    THEN [type |-> "status", line |-> <<option, StatusText(status[option])>>]
    ELSE [type |-> "not found or not configured", provider |-> option]

\* The command prints its report.
CliEcho ==
    /\ health_pc = "returned"
    /\ cli.output = Nothing
    /\ cli' = [cli EXCEPT !.output =
                   HealthReport(cli.provider, GetProviderNames(providers), health_status)]
    /\ UNCHANGED <<health_pc, health_i, health_status, health_checks>>
    /\ UNCHANGED <<managerVars, adapterVars, traderVars, webVars>>

\* The command has ended.
CliExit ==
    /\ \/ health_pc = "returned" /\ cli.output # Nothing
       \/ health_pc = "raised"
    /\ health_pc' = "idle"
    /\ health_i' = 0
    /\ health_status' = <<>>
    /\ health_checks' = <<>>
    /\ cli' = Nothing
    /\ UNCHANGED <<managerVars, adapterVars, traderVars, webVars>>

HealthNext ==
    \/ AiHealth
    \/ HealthCheckStep
    \/ HealthReturn
    \/ CliEcho
    \/ CliExit

HealthSpec == Init /\ [][HealthNext]_vars

(***************************************************************************)
(* AIEnhancedTrader: analyze_and_trade                                     *)
(***************************************************************************)

\* x < y for two floats.
Less(x, y) == x.num * y.den < y.num * x.den

\* ai_config.get("min_confidence", 0.7) and .get("max_risk_score", 0.6).
DefaultMinConfidence == Tenths(7)

DefaultMaxRiskScore == Tenths(6)

\* The thresholds and the mode AIEnhancedTrader.__init__ reads from
\* ai_config: the defaults or values given there.
TraderConfigs ==
    [min_confidence    : {DefaultMinConfidence, Tenths(9)},
     max_risk_score    : {DefaultMaxRiskScore, Tenths(2)},
     require_consensus : BOOLEAN]

\* TradeResult(success=..., platform=..., error_message=...).
TradeResult(success, error_message) ==
    [success |-> success, error_message |-> error_message]

\* The criteria without the risk threshold.
ShouldTradeIgnoringRisk(t, analysis) ==
    /\ analysis.success
    /\ ~Less(analysis.confidence, t.min_confidence)
    /\ analysis.recommendation \in {"buy", "sell"}

\* _should_trade_based_on_analysis: four checks, each returning False.
ShouldTradeBasedOnAnalysis(t, analysis) ==
    /\ analysis.success
    /\ ~Less(analysis.confidence, t.min_confidence)
    /\ ~Less(t.max_risk_score, analysis.risk_score)
    /\ analysis.recommendation \in {"buy", "sell"}

\* The lists gather may resolve to for the providers ps: one finished
\* _safe_analyze_token per provider.
RECURSIVE GatheredResponses(_)
GatheredResponses(ps) ==
    IF Len(ps) = 0
    THEN {<<>>}
    ELSE {<<SafeAnalyzeToken(Head(ps), outcome)>> \o rest :
             outcome \in AdapterOutcomes(Head(ps)),
             rest \in GatheredResponses(Tail(ps))}

\* What await self.ai_manager.analyze_token(...) may return.
AnalyzeTokenResults(ps) ==
    IF Len(ps) = 0 THEN {<<>>} ELSE {ValidResponses(r) : r \in GatheredResponses(ps)}

\* What the method does with the analysis it has: return a refusal or
\* await the buyer or the seller.
Decide(t, analysis) ==
    IF ~ShouldTradeBasedOnAnalysis(t, analysis)
    THEN [do |-> "return", value |-> TradeResult(FALSE, "AI analysis criteria not met")]
    ELSE IF analysis.recommendation = "buy"
    THEN [do |-> "execute", executor |-> "buyer"]
    ELSE IF analysis.recommendation = "sell"
    THEN [do |-> "execute", executor |-> "seller"]
    ELSE [do |-> "return", value |-> TradeResult(FALSE, "AI recommends hold")]

\* buyer.execute / seller.execute: a TradeResult or an exception.
ExecuteOutcomes ==
    {[type |-> "return", value |-> TradeResult(TRUE, "none")],
     [type |-> "return", value |-> TradeResult(FALSE, "execution failed")]}
    \cup {[type |-> "raise", error |-> e] : e \in Errors}

\* The try/except around the body: any Exception becomes a TradeResult.
Caught(outcome) ==
    IF outcome.type = "raise"
    THEN Returned(TradeResult(FALSE, "AI trading error: " \o outcome.error))
    ELSE Returned(outcome.value)

\* AIEnhancedTrader(..., ai_config, ...).
CreateTrader ==
    /\ trader = Nothing
    /\ trader' \in TraderConfigs
    /\ UNCHANGED <<trade_pc, trade_analysis, orders, trade_result>>
    /\ UNCHANGED <<managerVars, adapterVars, healthVars, webVars>>

\* The method returns value without having called an executor.
Refuse(analysis, value) ==
    /\ trade_analysis' = analysis
    /\ trade_pc' = "returned"
    /\ trade_result' = value
    /\ UNCHANGED orders

\* The method goes on with the analysis it has obtained.
Act(analysis) ==
    \E d \in {Decide(trader, analysis)} :
        IF d.do = "execute"
        THEN /\ trade_analysis' = analysis
             /\ trade_pc' = "executing"
             /\ orders' = Append(orders, d.executor)
             /\ UNCHANGED trade_result
        ELSE Refuse(analysis, d.value)

\* analyze_and_trade from its start to its return or to the await of
\* buyer.execute / seller.execute.
AnalyzeAndTrade ==
    /\ trader # Nothing
    /\ trade_pc = "idle"
    /\ \E responses \in AnalyzeTokenResults(providers) :
           IF trader.require_consensus
           THEN \E c \in {ConsensusOf(responses)} :
                    IF c.type = "exception"
                    THEN \E r \in {Caught([type |-> "raise", error |-> c.error])} :
                             Refuse(Nothing, r.value)
                    ELSE Act(c.value)
           ELSE IF Len(responses) = 0
                THEN Refuse(Nothing, TradeResult(FALSE, "No AI analysis available"))
                ELSE Act(responses[1])
    /\ UNCHANGED trader
    /\ UNCHANGED <<managerVars, adapterVars, healthVars, webVars>>

\* The executor's execute ends; its result is returned, its exception is
\* caught and turned into a TradeResult.
ExecuteReturns ==
    /\ trade_pc = "executing"
    /\ \E outcome \in ExecuteOutcomes :
           \E r \in {Caught(outcome)} :
               IF r.type = "exception"
               THEN /\ trade_pc' = "raised"
                    /\ UNCHANGED trade_result
               ELSE /\ trade_pc' = "returned"
                    /\ trade_result' = r.value
    /\ UNCHANGED <<trader, trade_analysis, orders>>
    /\ UNCHANGED <<managerVars, adapterVars, healthVars, webVars>>

\* The caller has the TradeResult; the trader is ready for the next token.
TradeDone ==
    /\ trade_pc \in {"returned", "raised"}
    /\ trade_pc' = "idle"
    /\ trade_analysis' = Nothing
    /\ orders' = <<>>
    /\ trade_result' = Nothing
    /\ UNCHANGED trader
    /\ UNCHANGED <<managerVars, adapterVars, healthVars, webVars>>

TraderNext ==
    \/ CreateTrader
    \/ AnalyzeAndTrade
    \/ ExecuteReturns
    \/ TradeDone

TraderSpec == Init /\ [][TraderNext]_vars

(***************************************************************************)
(* TradingBotWebUI: websocket_handler and broadcast_message                *)
(***************************************************************************)

\* The number of websocket connections the model opens.
MaxSockets == 3

Sockets == 1..MaxSockets

\* The elements of a list.
Range(xs) == {xs[i] : i \in 1..Len(xs)}

\* list.remove(x) for a list that holds x at most once.
Remove(xs, x) == SelectSeq(xs, LAMBDA y : y # x)

\* The loop "for ws in disconnected: if ws in self.websockets: remove".
RemoveDisconnected(xs, disc) == SelectSeq(xs, LAMBDA y : y \notin Range(disc))

\* websocket_handler up to its message loop: a new WebSocketResponse is
\* appended to the list.
Connect(ws) ==
    /\ ws \notin Range(websockets)
    /\ ws \notin listed \cup departed
    /\ websockets' = Append(websockets, ws)
    /\ UNCHANGED <<broadcast_pc, position, disconnected, listed, attempted, failed, departed>>
    /\ UNCHANGED <<managerVars, adapterVars, healthVars, traderVars>>

\* The finally block of websocket_handler: the connection's message loop
\* has ended and the handler removes its websocket from the list.
HandlerFinish(ws) ==
    /\ ws \in Range(websockets)
    /\ websockets' = Remove(websockets, ws)
    /\ departed' = (IF broadcast_pc = "idle" THEN departed ELSE departed \cup {ws})
    /\ UNCHANGED <<broadcast_pc, position, disconnected, listed, attempted, failed>>
    /\ UNCHANGED <<managerVars, adapterVars, healthVars, traderVars>>

\* The for statement asks the iterator of self.websockets, which is at
\* index pos, for the next element: if the list has one there, send_str is
\* awaited on it; if not, the loop ends, the websockets in disc are removed
\* and the method returns.
Iterate(pos, disc) ==
    /\ disconnected' = disc
    /\ IF pos < Len(websockets)
       THEN /\ position' = pos + 1
            /\ attempted' = Append(attempted, websockets[pos + 1])
            /\ broadcast_pc' = "sending"
            /\ UNCHANGED websockets
       ELSE /\ position' = pos
            /\ websockets' = RemoveDisconnected(websockets, disc)
            /\ broadcast_pc' = "returned"
            /\ UNCHANGED attempted

\* broadcast_message from its start to its first await: with no websocket
\* it returns at once.
BroadcastMessage ==
    /\ broadcast_pc = "idle"
    /\ listed' = Range(websockets)
    /\ IF Len(websockets) = 0
       THEN /\ broadcast_pc' = "returned"
            /\ UNCHANGED <<websockets, position, disconnected, attempted>>
       ELSE Iterate(0, <<>>)
    /\ UNCHANGED <<failed, departed>>
    /\ UNCHANGED <<managerVars, adapterVars, healthVars, traderVars>>

\* The awaited send_str ends, with an exception or without, and the loop
\* goes on to its next await or to the end of the method.
SendDone ==
    /\ broadcast_pc = "sending"
    /\ \E sent \in BOOLEAN :
           LET ws == attempted[Len(attempted)]
           IN  /\ failed' = (IF sent THEN failed ELSE failed \cup {ws})
               /\ Iterate(position, IF sent THEN disconnected ELSE Append(disconnected, ws))
    /\ UNCHANGED <<listed, departed>>
    /\ UNCHANGED <<managerVars, adapterVars, healthVars, traderVars>>

\* The caller of broadcast_message goes on.
BroadcastDone ==
    /\ broadcast_pc = "returned"
    /\ broadcast_pc' = "idle"
    /\ position' = 0
    /\ disconnected' = <<>>
    /\ listed' = {}
    /\ attempted' = <<>>
    /\ failed' = {}
    /\ departed' = {}
    /\ UNCHANGED websockets
    /\ UNCHANGED <<managerVars, adapterVars, healthVars, traderVars>>

WebNext ==
    \/ \E ws \in Sockets : Connect(ws)
    \/ \E ws \in Sockets : HandlerFinish(ws)
    \/ BroadcastMessage
    \/ SendDone
    \/ BroadcastDone

\* The web UI runs without an AIManager of its own in the model: the
\* manager's configuration is fixed to the empty one.
WebInit ==
    /\ Init
    /\ \A k \in KindSet : ~config[k].present

WebSpec == WebInit /\ [][WebNext]_vars

(***************************************************************************)
(* Properties                                                              *)
(***************************************************************************)

\* analyze_token has returned to a caller that called it directly.
AnalyzeReturned == pc = "returned" /\ entry = "analyze_token"

\* get_consensus_analysis has returned (or raised) to its caller.
ConsensusReturned == pc = "returned" /\ entry = "get_consensus_analysis"

\* get_consensus_analysis has returned a decision built from at least one outcome.
Aggregated == ConsensusReturned /\ Len(result) > 0 /\ decision # Nothing

\* The adapter call of task i raised.
AdapterRaised(i) == tasks[i].outcome.type = "raise"

\* The number of outcomes in the returned list that vote for rec.
VotesFor(rec) == Cardinality({i \in DOMAIN result : result[i].recommendation = rec})

\* r is a float equal to n tenths.
IsTenths(r, n) == r.num * 10 = n * r.den

\* C1: for any active set of N adapters and whatever each adapter call does
\* (returns a response, raises, times out), analyze_token returns a list of
\* exactly N outcomes and no exception reaches its caller.
C1_ExactlyNOutcomes ==
    pc = "returned" =>
        /\ Len(result) = Len(providers)
        /\ entry = "analyze_token" => raised = "none"

\* analyze_token returned four outcomes although one adapter call raised
\* and another one returned a response.
C1_Witness ==
    /\ AnalyzeReturned
    /\ Len(providers) = 4
    /\ Len(result) = 4
    /\ \E i, j \in 1..Len(tasks) :
           AdapterRaised(i) /\ tasks[j].outcome.type = "return"

\* C2: the outcome at position i of the returned list is the one produced by
\* the task of the i-th registered adapter, whatever the order in which the
\* tasks finished.
C2_RegistrationOrder ==
    pc = "returned" =>
        \A i \in 1..Len(result) :
            /\ i <= Len(tasks)
            /\ tasks[i].result.type = "result"
            /\ result[i] = tasks[i].result.value
            /\ "provider" \in DOMAIN result[i].metadata =>
                   result[i].metadata.provider \in {providers[i].kind, providers[i].name}

\* The last registered adapter finished first and the first one last, with
\* different outcomes, and analyze_token has returned.
C2_Witness ==
    /\ pc = "returned"
    /\ Len(providers) >= 3
    /\ Len(completed) = Len(providers)
    /\ completed[1] = Len(providers)
    /\ completed[Len(completed)] = 1
    /\ Len(result) = Len(providers)
    /\ result[1].recommendation # result[Len(result)].recommendation

\* A task that has not finished is neither dropped nor set back.
KeepsRunningTasks ==
    \A i \in 1..Len(tasks) :
        tasks[i].state # "done" =>
            /\ i <= Len(tasks')
            /\ tasks'[i].state \in {tasks[i].state, "running", "done"}
            /\ tasks[i].state = "running" => tasks'[i].state # "pending"

\* C3: analyze_token returns only after every launched unit is done; a unit
\* that failed neither ends the wait early nor stops a unit still running.
C3_WaitsForAll ==
    /\ [](pc = "returned" => \A i \in 1..Len(tasks) : tasks[i].state = "done")
    /\ [][KeepsRunningTasks]_vars

\* One unit has ended with a caught failure while another is still running
\* and a third has not started; the caller is still waiting.
C3_Witness ==
    /\ pc = "gather"
    /\ \E i, j, k \in 1..Len(tasks) :
           /\ tasks[i].state = "done" /\ AdapterRaised(i)
           /\ tasks[j].state = "running"
           /\ tasks[k].state = "pending"

\* C4: when an adapter call raises, the outcome at that adapter's position
\* is a failure (success false, hold, confidence 0.0, risk 0.5) whose text
\* and metadata name the adapter; the other adapters' outcomes are the
\* responses they returned.
C4_FailureNamesAdapter ==
    pc = "returned" =>
        \A i \in 1..Len(tasks) :
            /\ i <= Len(result)
            /\ AdapterRaised(i) =>
                   /\ result[i].success = FALSE
                   /\ result[i].recommendation = "hold"
                   /\ IsTenths(result[i].confidence, 0)
                   /\ IsTenths(result[i].risk_score, 5)
                   /\ result[i].reasoning = <<>>
                   /\ "name" \in DOMAIN result[i].analysis
                   /\ result[i].analysis.name = providers[i].name
                   /\ "provider" \in DOMAIN result[i].metadata
                   /\ result[i].metadata.provider = providers[i].name
            /\ ~AdapterRaised(i) => result[i] = tasks[i].outcome.value

\* The second of at least three adapters raised, its neighbours returned a
\* buy and a sell, and analyze_token has returned.
C4_Witness ==
    /\ pc = "returned"
    /\ Len(tasks) >= 3
    /\ AdapterRaised(2)
    /\ ~AdapterRaised(1) /\ ~AdapterRaised(3)
    /\ Len(result) >= 3
    /\ result[1].recommendation = "buy"
    /\ result[3].recommendation = "sell"

\* C5: with no active adapter analyze_token returns the empty list and
\* get_consensus_analysis returns success false with the fixed message and
\* every other field at its default; nothing is divided.
C5_NoProviders ==
    (pc = "returned" /\ Len(providers) = 0) =>
        /\ result = <<>>
        /\ raised = "none"
        /\ entry = "get_consensus_analysis" =>
               /\ decision # Nothing
               /\ decision.success = FALSE
               /\ decision.analysis = [text |-> "No AI providers available for analysis"]
               /\ IsTenths(decision.confidence, 0) /\ decision.confidence.den = 10
               /\ decision.recommendation = "hold"
               /\ IsTenths(decision.risk_score, 5) /\ decision.risk_score.den = 10
               /\ decision.reasoning = <<>>
               /\ DOMAIN decision.metadata = {}

\* get_consensus_analysis has returned for a manager without adapters.
C5_Witness == ConsensusReturned /\ Len(providers) = 0 /\ Len(tasks) = 0

\* C6: over all outcomes (a failed one votes hold) the consensus is buy iff
\* the buy votes exceed both the sell and the hold votes, sell iff the sell
\* votes exceed both the buy and the hold votes, and hold otherwise, so on
\* every two-way and three-way tie.
C6_PluralityVote ==
    Aggregated =>
        /\ decision.recommendation = "buy" <=>
               (VotesFor("buy") > VotesFor("sell") /\ VotesFor("buy") > VotesFor("hold"))
        /\ decision.recommendation = "sell" <=>
               (VotesFor("sell") > VotesFor("buy") /\ VotesFor("sell") > VotesFor("hold"))
        /\ decision.recommendation = "hold" <=>
               ~ \E c \in {"buy", "sell"} :
                     \A d \in {"buy", "sell", "hold"} \ {c} : VotesFor(c) > VotesFor(d)
        /\ VotesFor("buy") + VotesFor("sell") + VotesFor("hold") = Len(result)

\* A decision over a two-way tie between buy and hold, one of the hold votes
\* coming from a failed outcome.
C6_Witness ==
    /\ Aggregated
    /\ VotesFor("buy") = 2
    /\ VotesFor("hold") = 2
    /\ \E i \in DOMAIN result : ~result[i].success
    /\ decision.recommendation = "hold"

\* c has more than half of all votes.
HasMajority(c) == 2 * VotesFor(c) > Len(result)

\* c has more votes than each of the two other categories.
HasPlurality(c) == \A d \in {"buy", "sell", "hold"} \ {c} : VotesFor(c) > VotesFor(d)

\* C7 as stated: the consensus is the category with a strict majority; buy
\* (sell) is returned only with more than half of all votes, hold whenever
\* no category has a majority.
C7_StrictMajority ==
    Aggregated =>
        /\ decision.recommendation = "buy" => HasMajority("buy")
        /\ decision.recommendation = "sell" => HasMajority("sell")
        /\ (~ \E c \in {"buy", "sell", "hold"} : HasMajority(c)) =>
               decision.recommendation = "hold"

\* C7 as amended: a category with a strict majority is the consensus, but
\* buy (sell) needs only a strict plurality, and hold is returned exactly
\* when neither buy nor sell has a strict plurality.
C7_MajorityWinsPluralitySuffices ==
    Aggregated =>
        /\ \A c \in {"buy", "sell", "hold"} :
               HasMajority(c) => decision.recommendation = c
        /\ \A c \in {"buy", "sell"} :
               HasPlurality(c) <=> decision.recommendation = c

\* A buy decision on two of four votes: a plurality that is no majority.
C7_Witness ==
    /\ Aggregated
    /\ Len(result) = 4
    /\ VotesFor("buy") = 2 /\ VotesFor("sell") = 1 /\ VotesFor("hold") = 1
    /\ decision.recommendation = "buy"

\* The sum of the numerators of a field given in tenths, over result[1..n].
RECURSIVE TenthsTotal(_, _)
TenthsTotal(field, n) ==
    IF n = 0 THEN 0 ELSE TenthsTotal(field, n - 1) + result[n][field].num

\* The outcomes are buy 0.9, buy 0.8 and one failed outcome, in any order.
TwoBuysOneFailure ==
    /\ Len(result) = 3
    /\ \E i, j, k \in 1..3 :
           /\ {i, j, k} = {1, 2, 3}
           /\ result[i].recommendation = "buy" /\ IsTenths(result[i].confidence, 9)
           /\ result[j].recommendation = "buy" /\ IsTenths(result[j].confidence, 8)
           /\ ~result[k].success

\* C8: for N >= 1 outcomes the consensus confidence times N is the sum of
\* all N confidences and the consensus risk times N the sum of all N risks,
\* failed outcomes included with 0.0 and 0.5; buy 0.9, buy 0.8 and a
\* failure give buy with confidence 1.7/3.
C8_MeanOverAll ==
    Aggregated =>
        /\ \A i \in DOMAIN result :
               /\ result[i].confidence.den = 10 /\ result[i].risk_score.den = 10
               /\ ~result[i].success =>
                      (IsTenths(result[i].confidence, 0) /\ IsTenths(result[i].risk_score, 5))
        /\ decision.confidence.num * Len(result) * 10 =
               TenthsTotal("confidence", Len(result)) * decision.confidence.den
        /\ decision.risk_score.num * Len(result) * 10 =
               TenthsTotal("risk_score", Len(result)) * decision.risk_score.den
        /\ TwoBuysOneFailure =>
               /\ decision.recommendation = "buy"
               /\ decision.confidence.num * 30 = 17 * decision.confidence.den

\* The decision over buy 0.9, buy 0.8 and an adapter that timed out.
C8_Witness ==
    /\ Aggregated
    /\ TwoBuysOneFailure
    /\ \E i \in 1..Len(tasks) : AdapterRaised(i)

\* The number of reasoning entries of the outcomes before outcome i.
RECURSIVE ReasoningBefore(_)
ReasoningBefore(i) ==
    IF i <= 1 THEN 0 ELSE ReasoningBefore(i - 1) + Len(result[i - 1].reasoning)

\* C9: the consensus reasoning is the first min(10, total) entries of the
\* outcomes' reasoning lists put one after the other in outcome order:
\* never more than 10, nothing reordered or dropped before the cut.
C9_ReasoningPrefix ==
    Aggregated =>
        LET total == ReasoningBefore(Len(result) + 1)
        IN  /\ Len(decision.reasoning) = (IF total < 10 THEN total ELSE 10)
            /\ Len(decision.reasoning) <= 10
            /\ \A i \in DOMAIN result :
                   \A j \in 1..Len(result[i].reasoning) :
                       ReasoningBefore(i) + j <= 10 =>
                           decision.reasoning[ReasoningBefore(i) + j] = result[i].reasoning[j]

\* More than 10 entries are available and the cut falls inside one
\* outcome's list, after an outcome that has no entry.
C9_Witness ==
    /\ Aggregated
    /\ ReasoningBefore(Len(result) + 1) > 10
    /\ Len(decision.reasoning) = 10
    /\ \E i \in DOMAIN result :
           /\ ReasoningBefore(i) < 10
           /\ ReasoningBefore(i) + Len(result[i].reasoning) > 10
    /\ \E i \in DOMAIN result : Len(result[i].reasoning) = 0

\* C10: get_consensus_analysis always returns a decision and never raises;
\* success is false exactly when no adapter is active: with an active
\* adapter, even if every call failed, the decision has success true and is
\* built from the failures' defaults (hold, confidence 0.0, risk 0.5).
C10_AlwaysADecision ==
    ConsensusReturned =>
        /\ raised = "none"
        /\ decision # Nothing
        /\ decision.success <=> Len(providers) > 0
        /\ (Len(providers) > 0 /\ \A i \in 1..Len(tasks) :
                (AdapterRaised(i) \/ ~tasks[i].outcome.value.success)) =>
               /\ decision.success
               /\ decision.recommendation = "hold"
               /\ IsTenths(decision.confidence, 0)
               /\ IsTenths(decision.risk_score, 5)
               /\ decision.metadata.provider_count = Len(providers)

\* Every call of at least two adapters failed, one inside the adapter and
\* one with an exception, and get_consensus_analysis has returned.
C10_Witness ==
    /\ ConsensusReturned
    /\ Len(tasks) >= 2
    /\ \A i \in 1..Len(tasks) : AdapterRaised(i) \/ ~tasks[i].outcome.value.success
    /\ \E i \in 1..Len(tasks) : AdapterRaised(i)
    /\ \E i \in 1..Len(tasks) : ~AdapterRaised(i)

\* An adapter method was called directly and has answered.
AdapterCalled == call # Nothing /\ call.provider # Nothing

\* The request failed, the status is not a success, the body is not JSON or
\* the payload has no reply text where the adapter looks for it.
BackendFailed(b) ==
    b.transport = "error" \/ b.status # 200 \/ ~b.json \/ b.content = Missing

\* A response has the default recommendation, confidence and risk.
HasDefaults(r) ==
    /\ r.recommendation = "hold"
    /\ IsTenths(r.confidence, 0)
    /\ IsTenths(r.risk_score, 5)

\* C11: analyze_token and analyze_market_conditions of every adapter never
\* raise to the caller, and a transport error, a non-success status code or
\* a malformed payload yields success=false with recommendation hold,
\* confidence 0.0 and risk 0.5, never a success=true outcome.
C11_BackendFailureIsFailure ==
    AdapterCalled =>
        /\ reply.type = "result"
        /\ BackendFailed(call.backend) =>
               /\ ~reply.value.success
               /\ HasDefaults(reply.value)

\* C12: every outcome in the list analyze_token returns, successful or
\* failed, failures made inside an adapter included, has the adapter's
\* identifier in its metadata, and every successful one the model name too.
C12_MetadataNamesAdapter ==
    AnalyzeReturned =>
        \A i \in 1..Len(result) :
            /\ "provider" \in DOMAIN result[i].metadata
            /\ result[i].success => "model" \in DOMAIN result[i].metadata

\* A rational number lies in [0, 1].
InUnit(r) == r.den > 0 /\ 0 <= r.num /\ r.num <= r.den

\* A response within the ranges, with at most cap reasoning entries.
WellFormed(r, cap) ==
    /\ InUnit(r.confidence)
    /\ InUnit(r.risk_score)
    /\ r.recommendation \in {"buy", "sell", "hold"}
    /\ Len(r.reasoning) <= cap

\* C13: every outcome of an adapter, of the manager's failure wrapper and of
\* get_consensus_analysis has confidence and risk in [0, 1], a
\* recommendation among buy, sell and hold, and at most 5 reasoning entries
\* (at most 10 for a consensus decision).
C13_OutcomesWellFormed ==
    /\ AdapterCalled => reply.type = "result" /\ WellFormed(reply.value, 5)
    /\ \A i \in 1..Len(result) : WellFormed(result[i], 5)
    /\ decision # Nothing => WellFormed(decision, 10)

\* A consensus over adapters that each cut six points down to five, with
\* the wrapper's failure for the adapter that raised: the decision keeps ten.
C13_Witness ==
    /\ call # Nothing
    /\ call.method = "get_consensus_analysis"
    /\ decision # Nothing
    /\ Len(decision.reasoning) = 10
    /\ \E i \in 1..Len(result) : result[i].success /\ Len(result[i].reasoning) = 5
    /\ \E i \in 1..Len(result) :
           ~result[i].success /\ "provider" \in DOMAIN result[i].metadata

\* An adapter method was called and the backend's reply text, a string,
\* went through the interpreter.
Interpreted ==
    /\ AdapterCalled
    /\ ~BackendFailed(call.backend)
    /\ call.backend.content.kind = "str"
    /\ reply.type = "result"

\* The reply text of the call, and the response made of it.
ReplyText == call.backend.content.str

Outcome == reply.value

SellTriggers == {"recommend sell", "should sell", "avoid", "skip"}

BuyTriggers == {"recommend buy", "should buy"}

\* C14: for every reply text and every adapter the interpreter assigns sell
\* whenever the lowercased text contains a sell trigger ("recommend sell",
\* "should sell", "avoid", "skip"), also when a buy trigger is in the same
\* text: sell triggers are checked before buy triggers.
C14_SellTriggersFirst ==
    (Interpreted /\ ContainsAny(Lower(ReplyText), SellTriggers)) =>
        Outcome.recommendation = "sell"

\* C15: for every reply text and every adapter the interpreter assigns buy
\* only when the lowercased text contains a buy trigger ("recommend buy",
\* "should buy") and no sell trigger; a text with neither kind of trigger is
\* assigned hold.
C15_BuyOnlyWithoutSellTrigger ==
    Interpreted =>
        LET buys  == ContainsAny(Lower(ReplyText), BuyTriggers)
            sells == ContainsAny(Lower(ReplyText), SellTriggers)
        IN  /\ Outcome.recommendation = "buy" => (buys /\ ~sells)
            /\ (~buys /\ ~sells) => Outcome.recommendation = "hold"

\* The risk table as stated, in tenths: the first matching rule.
RiskTable(text_lower) ==
    IF Contains(text_lower, "extremely risky") THEN 9
    ELSE IF ContainsAny(text_lower, {"high risk", "risky"}) THEN 8
    ELSE IF ContainsAny(text_lower, {"low risk", "safe"}) THEN 2
    ELSE 5

\* C16: for every reply text the interpreter's risk is the first matching
\* rule of: 0.9 if the lowercased text contains "extremely risky"; else 0.8
\* if "high risk" or "risky"; else 0.2 if "low risk" or "safe"; else 0.5.
\* A text with "extremely risky" always gets 0.9.
C16_RiskTable ==
    Interpreted => IsTenths(Outcome.risk_score, RiskTable(Lower(ReplyText)))

\* The confidence table as stated, in tenths: the first matching rule.
ConfidenceTable(text_lower) ==
    IF Contains(text_lower, "extremely confident") THEN 9
    ELSE IF ContainsAny(text_lower, {"high confidence", "very confident"}) THEN 8
    ELSE IF ContainsAny(text_lower, {"low confidence", "uncertain"}) THEN 3
    ELSE 5

\* C17: for every reply text the interpreter's confidence is the first
\* matching rule of: 0.9 if the lowercased text contains "extremely
\* confident"; else 0.8 if "high confidence" or "very confident"; else 0.3
\* if "low confidence" or "uncertain"; else 0.5.
C17_ConfidenceTable ==
    Interpreted => IsTenths(Outcome.confidence, ConfidenceTable(Lower(ReplyText)))

\* A stripped line is a point as stated: it starts with "-", the bullet
\* character, "*" or, for the adapters with number markers, "1." to "5.";
\* for the adapter without number markers it may instead contain "because",
\* "due to" or "reason".
IsPoint(kind, line) ==
    \/ \E marker \in {"-", "@", "*"} : StartsWith(line, marker)
    \/ /\ kind # "ollama"
       /\ \E marker \in NumberMarkers : StartsWith(line, marker)
    \/ /\ kind = "ollama"
       /\ ContainsAny(Lower(line), {"because", "due to", "reason"})

\* The stripped lines of a text that are points, in their order.
Points(kind, text) ==
    LET lines    == SplitLines(text)
        stripped == [i \in 1..Len(lines) |-> Strip(lines[i])]
    IN  SelectSeq(stripped, LAMBDA line : IsPoint(kind, line))

\* C18: the reasoning of an interpreted reply is the first 5 captured lines
\* of the reply in their order, a line being captured iff after stripping
\* it starts with a bullet or number marker ("-", the bullet character, "*",
\* "1." to "5.") or, for the adapter without number markers, contains
\* "because", "due to" or "reason": no other line appears, none is skipped.
C18_ReasoningIsFirstFivePoints ==
    Interpreted =>
        Outcome.reasoning = Prefix(Points(call.provider.kind, ReplyText), 5)

\* The backend answered a request with a payload whose reply text is JSON
\* null, on which text.lower() raises.
ExtractionRaised ==
    /\ AdapterCalled
    /\ ~BackendFailed(call.backend)
    /\ call.backend.content = Null

\* C19: when the structured extraction raises, the interpreter returns
\* success=true with the raw reply as analysis, a parse_error note, the
\* adapter identifier and the model in metadata, and the default fields
\* (hold, 0.0, 0.5, no reasoning); the error is not propagated and does not
\* make the outcome a failure.
C19_ExtractionErrorIsSuccess ==
    ExtractionRaised =>
        /\ reply.type = "result"
        /\ Outcome.success
        /\ Outcome.analysis = call.backend.content
        /\ DOMAIN Outcome.metadata = {"provider", "model", "parse_error"}
        /\ Outcome.metadata.provider = call.provider.kind
        /\ Outcome.metadata.model = call.provider.model
        /\ HasDefaults(Outcome)
        /\ Outcome.reasoning = <<>>

\* Gemini's analyze_market_conditions has interpreted a null reply text and
\* answered with the parse_error note.
C19_Witness ==
    /\ ExtractionRaised
    /\ call.provider.kind = "gemini"
    /\ call.method = "analyze_market_conditions"
    /\ reply.type = "result"
    /\ "parse_error" \in DOMAIN reply.value.metadata

\* The kinds of the registered adapters.
RegisteredKinds == {providers[i].kind : i \in 1..Len(providers)}

\* C20: building the registry never aborts: for any configuration the
\* active adapters are exactly the kinds present, enabled and
\* constructible; a disabled or absent kind is skipped, a kind whose
\* construction fails (Gemini enabled without an API key) is left out, and
\* the other kinds are still registered.
C20_RegistryIsTheConstructibleKinds ==
    /\ RegisteredKinds =
           {k \in KindSet :
               /\ config[k].present
               /\ config[k].enabled
               /\ (k = "gemini" => config[k].api_key)}
    /\ Cardinality(RegisteredKinds) = Len(providers)

\* Gemini is enabled without a key, one kind is disabled, one is absent,
\* and the remaining kind is the registry.
C20_Witness ==
    /\ config["gemini"].enabled /\ ~config["gemini"].api_key
    /\ \E k \in KindSet : config[k].present /\ ~config[k].enabled
    /\ \E k \in KindSet : ~config[k].present
    /\ Len(providers) = 1
    /\ pc = "returned"

\* C22: for every non-empty outcome list the decision's metadata
\* provider_count is the number of outcomes analyze_token returned, and
\* individual_responses is that list: every per-adapter outcome, unmodified
\* and in the same order.
C22_AuditMetadata ==
    (ConsensusReturned /\ Len(result) > 0) =>
        /\ decision # Nothing
        /\ decision.metadata.provider_count = Len(result)
        /\ decision.metadata.individual_responses = result
        /\ Len(result) = Len(tasks)
        /\ \A i \in 1..Len(tasks) : result[i] = tasks[i].result.value

\* A decision over three or more outcomes, failures and successes among
\* them.
C22_Witness ==
    /\ Aggregated
    /\ Len(result) >= 3
    /\ \E i \in 1..Len(result) : ~result[i].success
    /\ \E i \in 1..Len(result) : result[i].success
    /\ Len(decision.metadata.individual_responses) = Len(result)

\* C23: within one analyze_token call each active adapter's analyze_token
\* is invoked exactly once: a failed, timed-out or raising call is not
\* retried and no adapter is skipped.
C23_OneCallPerAdapter ==
    /\ pc \in {"gather", "returned"} => Len(tasks) = Len(providers)
    /\ \A i \in 1..Len(tasks) :
           /\ tasks[i].calls <= 1
           /\ tasks[i].calls = 1 <=> tasks[i].state \in {"running", "done"}
    /\ pc = "returned" => \A i \in 1..Len(tasks) : tasks[i].calls = 1

\* analyze_token has returned after one adapter raised and another failed
\* locally, each called once.
C23_Witness ==
    /\ AnalyzeReturned
    /\ \E i \in 1..Len(tasks) : AdapterRaised(i) /\ tasks[i].calls = 1
    /\ \E i \in 1..Len(tasks) :
           /\ ~AdapterRaised(i)
           /\ ~tasks[i].outcome.value.success
           /\ tasks[i].calls = 1

\* A finished task keeps what it ended with while the others finish.
DoneStaysDone ==
    \A i \in 1..Len(tasks) :
        (tasks[i].state = "done" /\ pc' # "idle") =>
            (i \in 1..Len(tasks') /\ tasks'[i] = tasks[i])

\* C24: when every adapter call reaches a terminal state, under fair
\* scheduling analyze_token eventually returns; it returns no earlier than
\* the last adapter's terminal state, and what a slow adapter does changes
\* no other adapter's outcome.
C24_ReturnsAfterTheSlowest ==
    /\ (pc = "gather") ~> (pc = "returned")
    /\ [](pc = "returned" => \A i \in 1..Len(tasks) : tasks[i].state = "done")
    /\ [][DoneStaysDone]_vars

\* analyze_token has returned although the adapter that finished last was
\* the first in the registry.
C24_Witness ==
    /\ AnalyzeReturned
    /\ Len(tasks) >= 3
    /\ completed[Len(completed)] = 1
    /\ \E i \in 1..Len(tasks) : AdapterRaised(i)

\* The status the mapping must hold for a health_check call.
Reported(check) == IF check.type = "raise" THEN FALSE ELSE check.value

\* C21: check_provider_health never raises and returns a mapping with
\* exactly one boolean entry per active adapter, the value its health_check
\* returned or false if that call raised; one adapter's failing health
\* check does not keep the remaining adapters from being checked.
C21_HealthMapping ==
    /\ health_pc # "raised"
    /\ health_pc = "returned" =>
           /\ Len(health_checks) = Len(providers)
           /\ DOMAIN health_status = {providers[i].name : i \in 1..Len(providers)}
           /\ Cardinality(DOMAIN health_status) = Len(providers)
           /\ \A i \in 1..Len(providers) :
                  /\ health_status[providers[i].name] \in BOOLEAN
                  /\ health_status[providers[i].name] = Reported(health_checks[i])

\* The mapping was returned after one health_check raised and a later
\* adapter was found healthy.
C21_Witness ==
    /\ health_pc = "returned"
    /\ \E i, j \in 1..Len(health_checks) :
           /\ i < j
           /\ health_checks[i].type = "raise"
           /\ health_checks[j].type = "return"
           /\ health_checks[j].value
           /\ ~health_status[providers[i].name]
           /\ health_status[providers[j].name]

\* get_consensus_analysis ran with every adapter reading the same reply
\* text.
SameReplyForAll ==
    /\ call # Nothing
    /\ call.method = "get_consensus_analysis"
    /\ ~BackendFailed(call.backend)
    /\ call.backend.content.kind = "str"

\* C25: the interpreters of all adapter kinds are one function: for every
\* reply text the Ollama, LM Studio and Gemini adapters give the same
\* recommendation, confidence, risk and reasoning; only the provider and
\* model metadata may differ.
C25_OneInterpreter ==
    SameReplyForAll =>
        \A i, j \in 1..Len(result) :
            (result[i].success /\ result[j].success) =>
                /\ result[i].recommendation = result[j].recommendation
                /\ result[i].confidence = result[j].confidence
                /\ result[i].risk_score = result[j].risk_score
                /\ result[i].reasoning = result[j].reasoning

\* C27: the adapter identifier in an outcome's metadata is the same for the
\* adapter's successful outcomes, its adapter-local failures and the
\* failures the manager caught, and it is the name get_provider_names and
\* the keys of check_provider_health have for that adapter.
C27_OneIdentifierPerAdapter ==
    AnalyzeReturned =>
        \A i \in 1..Len(result) :
            /\ "provider" \in DOMAIN result[i].metadata
            /\ result[i].metadata.provider = GetProviderNames(providers)[i]
            /\ result[i].metadata.provider = HealthKey(providers[i])

\* The command was run for one backend kind and has printed its report.
CliAskedFor(k) ==
    /\ health_pc = "returned"
    /\ cli.provider = k
    /\ cli.output # Nothing

\* C29: for every backend kind k that is active in the manager,
\* "ai health --provider k" finds k in the mapping check_provider_health
\* returned and reports that adapter's health; it answers "not found or not
\* configured" only when k is not active.
C29_CliFindsActiveKind ==
    \A k \in KindSet :
        CliAskedFor(k) =>
            /\ k \in RegisteredKinds =>
                   /\ cli.output.type = "status"
                   /\ cli.output.line = <<k, StatusText(health_status[ClassName(k)])>>
            /\ cli.output.type = "not found or not configured" => k \notin RegisteredKinds

\* The analysis a call of analyze_and_trade used meets the criteria for an
\* order of the given side.
Qualifies(side) ==
    /\ trade_analysis # Nothing
    /\ trade_analysis.success
    /\ trade_analysis.confidence.num * trader.min_confidence.den
           >= trader.min_confidence.num * trade_analysis.confidence.den
    /\ trade_analysis.risk_score.num * trader.max_risk_score.den
           <= trader.max_risk_score.num * trade_analysis.risk_score.den
    /\ trade_analysis.recommendation = side

\* C26: analyze_and_trade never raises and places at most one order per
\* call: the buyer is called only if the analysis used has success true,
\* confidence >= min_confidence, risk <= max_risk_score and recommendation
\* buy, the seller only under the same conditions with recommendation sell;
\* in every other case (hold, failed or empty analysis, thresholds not
\* met) no order is placed.
C26_OrdersOnlyWithinThresholds ==
    /\ trade_pc # "raised"
    /\ Len(orders) <= 1
    /\ \A i \in 1..Len(orders) :
           /\ orders[i] = "buyer" => Qualifies("buy")
           /\ orders[i] = "seller" => Qualifies("sell")
           /\ orders[i] \in {"buyer", "seller"}
    /\ (trade_pc = "returned" /\ ~Qualifies("buy") /\ ~Qualifies("sell")) => orders = <<>>

\* The buyer was called for a consensus whose risk is exactly the maximum
\* allowed, and its execute raised, which the caller got as a TradeResult.
C26_Witness ==
    /\ trade_pc = "returned"
    /\ orders = <<"buyer">>
    /\ trader.require_consensus
    /\ trade_analysis.risk_score.num * trader.max_risk_score.den
           = trader.max_risk_score.num * trade_analysis.risk_score.den
    /\ ~trade_result.success
    /\ trade_result.error_message = "AI trading error: TimeoutError"

\* C28: broadcast_message attempts to send to every websocket that stays
\* in the connection list for the whole broadcast, also when another
\* connection's handler removes itself from the list while the broadcast is
\* suspended in a send: no still-connected client is skipped, and after the
\* broadcast the list holds no websocket whose send failed.
C28_BroadcastReachesEveryClient ==
    broadcast_pc = "returned" =>
        /\ \A ws \in listed \ departed : ws \in Range(attempted)
        /\ \A ws \in failed : ws \notin Range(websockets)

\* The kinds of Kinds that are registered, in the order of Kinds.
RegisteredInKindsOrder == SelectSeq(Kinds, LAMBDA k : k \in RegisteredKinds)

\* C30: the active adapters are registered in the fixed order Ollama, LM
\* Studio, LocalAI, Gemini restricted to the registered kinds, whatever the
\* order of the configuration's keys; each kind is registered at most once,
\* so the names are pairwise distinct and get_provider_count is the length
\* of get_provider_names and the number of keys of check_provider_health.
C30_FixedOrderDistinctNames ==
    LET names == GetProviderNames(providers)
    IN  /\ Len(providers) = Len(RegisteredInKindsOrder)
        /\ \A i \in 1..Len(providers) : providers[i].kind = RegisteredInKindsOrder[i]
        /\ \A i, j \in 1..Len(names) : i # j => names[i] # names[j]
        /\ GetProviderCount(providers) = Len(names)
        /\ health_pc = "returned" =>
               GetProviderCount(providers) = Cardinality(DOMAIN health_status)

\* The mapping of three adapters was returned, Ollama not among them and
\* Gemini the last.
C30_Witness ==
    /\ health_pc = "returned"
    /\ GetProviderCount(providers) = 3
    /\ "ollama" \notin RegisteredKinds
    /\ providers[3].kind = "gemini"
    /\ Cardinality(DOMAIN health_status) = 3

====
